---- MODULE Spec2Model ----
(***************************************************************************)
(* A model of the tlo task orchestrator: the three queue backings of       *)
(* tlo/queue/queue.py, the in-memory task state store, the task registry   *)
(* and the LocalExecutor of tlo/executor/executor.py.                      *)
(*                                                                         *)
(* Time is a count of half-second ticks.  An optional value (Python's      *)
(* None or a value) is the empty sequence or a one-element sequence.       *)
(***************************************************************************)
EXTENDS Integers, Sequences, FiniteSets, TLC

VARIABLES backing, now, queue, store, running, ret, last_run, locks, thread,
          panic_mode, scheduled, tasks

vars == <<backing, now, queue, store, running, ret, last_run, locks, thread,
          panic_mode, scheduled, tasks>>

\* What no operation of the queue, the executor or the scheduler changes:
\* the setting panic_mode, the registrations that carry a schedule, and
\* the registry's dict of definitions (only register assigns to it).
config == <<panic_mode, scheduled, tasks>>

\* What the operations of the queue, the orchestrator and the executor
\* leave alone when they are called one after the other: the scheduler's
\* last-run map, the positions of the run() and stop() threads and the
\* configuration.
idle == <<last_run, thread, config>>

\* ---------------------------------------------------------------- bounds
MaxTime == 1
MaxId == 2
MaxQueue == 2
MaxTickTime == 3
MaxTickId == 4
MaxOpId == 3
MaxOps == 3

Ids == 1..MaxId
Times == 0..MaxTime

\* ------------------------------------------------------------- constants
TLO_DEFAULT_QUEUE_NAME == "default"
QueueNames == {TLO_DEFAULT_QUEUE_NAME, "priority"}
QueueEnum == {"SimpleInMemoryQueue", "MapQueue", "InMemorySqliteQueue"}
StopBehaviorEnum == {"Cancel", "Ignore", "Drain"}

\* settings.default_queue as from_defaults sets it
default_queue == TLO_DEFAULT_QUEUE_NAME

\* settings.tick_interval as from_defaults sets it: one second, in clock ticks
tick_interval == 2

None == <<>>
Some(x) == <<x>>

\* ------------------------------------------------------------ QueuedTask
\* The names a task can carry: two registered callables and a name that
\* the registry does not hold.
TaskNames == {"ok", "boom", "missing"}
Etas == {None} \cup {Some(t) : t \in Times}

QueuedTask(id, task_name, queue_name, eta) ==
    [id |-> id, task_name |-> task_name, queue_name |-> queue_name, eta |-> eta]

QueuedTasks ==
    {QueuedTask(i, n, q, e) : i \in Ids, n \in TaskNames, q \in QueueNames, e \in Etas}

\* ------------------------------------------------- datetime <-> ISO text
\* datetime.isoformat() of a UTC instant: the fixed-width date and time
\* down to the second, then ".ffffff" only when the microsecond is not
\* zero, then "+00:00".  A text is a sequence of character codes; the
\* fixed-width block of whole seconds is one digit here.
PlusChar == 43
DotChar == 46
ZeroChar == 48

isoformat(t) ==
    <<ZeroChar + (t \div 2)>>
        \o (IF t % 2 = 0 THEN <<>> ELSE <<DotChar, ZeroChar + 5>>)
        \o <<PlusChar>>

fromisoformat(s) ==
    2 * (s[1] - ZeroChar) + (IF Len(s) >= 2 /\ s[2] = DotChar THEN 1 ELSE 0)

\* SQLite's BINARY collation of two TEXT values: memcmp, a proper prefix first.
TextLess(a, b) ==
    \E k \in 1..(Len(b)) :
        /\ \A j \in 1..(k - 1) : j <= Len(a) /\ a[j] = b[j]
        /\ \/ k = Len(a) + 1
           \/ k <= Len(a) /\ a[k] < b[k]

TextLeq(a, b) == a = b \/ TextLess(a, b)

\* ------------------------------------------------------ sequence helpers
InsertAt(s, i, x) == SubSeq(s, 1, i - 1) \o <<x>> \o SubSeq(s, i, Len(s))

DeleteAt(s, i) == SubSeq(s, 1, i - 1) \o SubSeq(s, i + 1, Len(s))

\* list.remove(x) / deque.remove(x): the first element equal to x goes.
RemoveFirst(s, x) ==
    IF \E i \in 1..Len(s) : s[i] = x
    THEN DeleteAt(s, CHOOSE i \in 1..Len(s) :
                        s[i] = x /\ \A j \in 1..(i - 1) : s[j] # x)
    ELSE s

\* ---------------------------------------------------------- InsertQtMixin
enqueue_without_eta_appends(task, q) == Append(q, task)

enqueue_without_eta(task, q) ==
    IF \E i \in 1..Len(q) : q[i].eta # None
    THEN InsertAt(q, CHOOSE i \in 1..Len(q) :
                        q[i].eta # None /\ \A j \in 1..(i - 1) : q[j].eta = None,
                  task)
    ELSE Append(q, task)

EtaInsertHere(task, existing) ==
    existing.eta # None /\ ~(existing.eta[1] <= task.eta[1])

enqueue_with_eta_appends(task, q) == Append(q, task)

enqueue_with_eta(task, q) ==
    IF \E i \in 1..Len(q) : EtaInsertHere(task, q[i])
    THEN InsertAt(q, CHOOSE i \in 1..Len(q) :
                        /\ EtaInsertHere(task, q[i])
                        /\ \A j \in 1..(i - 1) : ~EtaInsertHere(task, q[j]),
                  task)
    ELSE Append(q, task)

InsertQt(qt, q) ==
    IF q = <<>> THEN Append(q, qt)
    ELSE IF qt.eta = None THEN enqueue_without_eta(qt, q)
    ELSE enqueue_with_eta(qt, q)

\* ---------------------------------------------------- SimpleInMemoryQueue
\* Q.list is self._queue.
SimpleInMemoryQueue_enqueue(Q, qt) == [Q EXCEPT !.list = InsertQt(qt, Q.list)]

SimpleInMemoryQueue_next_task_of_any_queue(Q, queue_name, t) ==
    IF Q.list = <<>> THEN None
    ELSE IF Head(Q.list).eta = None THEN Some(Head(Q.list))
    ELSE IF Head(Q.list).eta[1] > t THEN None
    ELSE Some(Head(Q.list))

\* The loop body returns or breaks on its first iteration, so only the
\* first task of the named queue is looked at.
SimpleInMemoryQueue_next_task(Q, queue_name, t) ==
    LET queued_tasks == SelectSeq(Q.list, LAMBDA qt : qt.queue_name = queue_name)
    IN  IF queued_tasks = <<>> THEN None
        ELSE IF Head(queued_tasks).eta = None THEN Some(Head(queued_tasks))
        ELSE IF Head(queued_tasks).eta[1] > t THEN None
        ELSE Some(Head(queued_tasks))

SimpleInMemoryQueue_dequeue(Q, queue_name, t) ==
    LET qt == SimpleInMemoryQueue_next_task(Q, queue_name, t)
    IN  IF qt # None
        THEN [queue |-> [Q EXCEPT !.list = RemoveFirst(Q.list, qt[1])], task |-> qt]
        ELSE [queue |-> Q, task |-> None]

SimpleInMemoryQueue_remove(Q, task_id) ==
    IF \E i \in 1..Len(Q.list) : Q.list[i].id = task_id
    THEN [Q EXCEPT !.list = DeleteAt(Q.list, CHOOSE i \in 1..Len(Q.list) :
              Q.list[i].id = task_id /\ \A j \in 1..(i - 1) : Q.list[j].id # task_id)]
    ELSE Q

\* ----------------------------------------------------------------- MapQueue
\* Q.keys lists the keys of the defaultdict in insertion order, Q.deques
\* maps each name to its deque (empty for a name that is no key yet).
MapTouch(Q, queue_name) ==
    IF \E i \in 1..Len(Q.keys) : Q.keys[i] = queue_name
    THEN Q ELSE [Q EXCEPT !.keys = Append(Q.keys, queue_name)]

MapQueue_enqueue(Q, qt) ==
    LET T == MapTouch(Q, qt.queue_name)
    IN  [T EXCEPT !.deques[qt.queue_name] = InsertQt(qt, T.deques[qt.queue_name])]

MapHeadEligible(q, t) ==
    q # <<>> /\ (q[1].eta = None \/ q[1].eta[1] <= t)

MapQueue_dequeue(Q, queue_name, t) ==
    LET T == MapTouch(Q, queue_name)
        q == T.deques[queue_name]
    IN  IF MapHeadEligible(q, t)
        THEN [queue |-> [T EXCEPT !.deques[queue_name] = Tail(q)], task |-> Some(q[1])]
        ELSE [queue |-> T, task |-> None]

MapQueue_remove_nothing(Q, task_id) == Q

MapQueue_remove(Q, task_id) ==
    LET Holds(k) == \E i \in 1..Len(Q.deques[Q.keys[k]]) :
                        Q.deques[Q.keys[k]][i].id = task_id
    IN  IF \E k \in 1..Len(Q.keys) : Holds(k)
        THEN LET k == CHOOSE k \in 1..Len(Q.keys) :
                          Holds(k) /\ \A j \in 1..(k - 1) : ~Holds(j)
                 q == Q.deques[Q.keys[k]]
                 i == CHOOSE i \in 1..Len(q) :
                          q[i].id = task_id /\ \A j \in 1..(i - 1) : q[j].id # task_id
             IN  [Q EXCEPT !.deques[Q.keys[k]] = RemoveFirst(q, q[i])]
        ELSE Q

\* ------------------------------------------------------ InMemorySqliteQueue
\* Q.rows is the table in rowid order; eta is NULL (None) or ISO text.
to_sql_row(qt) ==
    [id |-> qt.id, task_name |-> qt.task_name, queue_name |-> qt.queue_name,
     eta |-> IF qt.eta = None THEN None ELSE isoformat(qt.eta[1])]

from_sql_schema(row) ==
    QueuedTask(row.id, row.task_name, row.queue_name,
               IF row.eta # <<>> THEN Some(fromisoformat(row.eta)) ELSE None)

\* INSERT OR REPLACE: a row of the same id is deleted, the new row is last.
InMemorySqliteQueue_enqueue(Q, qt) ==
    [Q EXCEPT !.rows =
        Append(SelectSeq(Q.rows, LAMBDA r : r.id # qt.id), to_sql_row(qt))]

SqlWhere_any_eta(row, queue_name, now_text) == row.queue_name = queue_name

SqlWhere(row, queue_name, now_text) ==
    row.queue_name = queue_name /\ (row.eta = None \/ TextLeq(row.eta, now_text))

\* ORDER BY CASE WHEN eta IS NULL THEN 0 ELSE 1 END, eta ASC
SqlOrderedBefore(a, b) ==
    \/ a.eta = None /\ b.eta # None
    \/ a.eta # None /\ b.eta # None /\ TextLess(a.eta, b.eta)

SqlSelectNext(Q, queue_name, t) ==
    LET now_text == isoformat(t)
        Hit(i) == SqlWhere(Q.rows[i], queue_name, now_text)
        Least(i) == Hit(i) /\ \A j \in 1..Len(Q.rows) :
                        Hit(j) => ~SqlOrderedBefore(Q.rows[j], Q.rows[i])
    IN  IF \E i \in 1..Len(Q.rows) : Hit(i)
        THEN Some(Q.rows[CHOOSE i \in 1..Len(Q.rows) :
                      Least(i) /\ \A j \in 1..(i - 1) : ~Least(j)])
        ELSE None

InMemorySqliteQueue_remove(Q, task_id) ==
    [Q EXCEPT !.rows = SelectSeq(Q.rows, LAMBDA r : r.id # task_id)]

InMemorySqliteQueue_dequeue(Q, queue_name, t) ==
    LET row == SqlSelectNext(Q, queue_name, t)
    IN  IF row = None THEN [queue |-> Q, task |-> None]
        ELSE [queue |-> InMemorySqliteQueue_remove(Q, row[1].id),
              task |-> Some(from_sql_schema(row[1]))]

\* ------------------------------------------------------------ QueueProtocol
\* Python's None where a queue name is expected: no task carries it, and
\* MapQueue's defaultdict takes it as a key like any other.
NoQueueName == "None"

EmptyQueue ==
    [list |-> <<>>, keys |-> <<>>,
     deques |-> [n \in QueueNames \cup {NoQueueName} |-> <<>>], rows |-> <<>>]

enqueue(Q, qt) ==
    CASE backing = "SimpleInMemoryQueue" -> SimpleInMemoryQueue_enqueue(Q, qt)
      [] backing = "MapQueue" -> MapQueue_enqueue(Q, qt)
      [] backing = "InMemorySqliteQueue" -> InMemorySqliteQueue_enqueue(Q, qt)

dequeue(Q, queue_name, t) ==
    CASE backing = "SimpleInMemoryQueue" -> SimpleInMemoryQueue_dequeue(Q, queue_name, t)
      [] backing = "MapQueue" -> MapQueue_dequeue(Q, queue_name, t)
      [] backing = "InMemorySqliteQueue" -> InMemorySqliteQueue_dequeue(Q, queue_name, t)

remove(Q, task_id) ==
    CASE backing = "SimpleInMemoryQueue" -> SimpleInMemoryQueue_remove(Q, task_id)
      [] backing = "MapQueue" -> MapQueue_remove(Q, task_id)
      [] backing = "InMemorySqliteQueue" -> InMemorySqliteQueue_remove(Q, task_id)

\* peek(queue_name): the task dequeue would hand out, left in place.  The
\* lookup in MapQueue makes the name a key of the defaultdict.
SimpleInMemoryQueue_peek(Q, queue_name, t) ==
    [queue |-> Q, task |-> SimpleInMemoryQueue_next_task(Q, queue_name, t)]

MapQueue_peek_whatever_is_first(Q, queue_name, t) ==
    LET T == MapTouch(Q, queue_name)
    IN  [queue |-> T,
         task |-> IF T.deques[queue_name] # <<>> THEN Some(T.deques[queue_name][1]) ELSE None]

MapQueue_peek(Q, queue_name, t) ==
    LET T == MapTouch(Q, queue_name)
        q == T.deques[queue_name]
    IN  [queue |-> T, task |-> IF MapHeadEligible(q, t) THEN Some(q[1]) ELSE None]

InMemorySqliteQueue_peek(Q, queue_name, t) ==
    LET row == SqlSelectNext(Q, queue_name, t)
    IN  [queue |-> Q, task |-> IF row = None THEN None ELSE Some(from_sql_schema(row[1]))]

peek(Q, queue_name, t) ==
    CASE backing = "SimpleInMemoryQueue" -> SimpleInMemoryQueue_peek(Q, queue_name, t)
      [] backing = "MapQueue" -> MapQueue_peek(Q, queue_name, t)
      [] backing = "InMemorySqliteQueue" -> InMemorySqliteQueue_peek(Q, queue_name, t)

\* dequeue as two threads can interleave it.  No backing holds a mutex, so
\* another thread may run between the statement that looks for the next
\* eligible task (dequeue_look: _next_task, the test of queue[0], the
\* SELECT) and the statement that takes it out (dequeue_take:
\* list.remove, deque.popleft, the DELETE).
dequeue_look(Q, queue_name, t) ==
    CASE backing = "SimpleInMemoryQueue" ->
            [queue |-> Q, task |-> SimpleInMemoryQueue_next_task(Q, queue_name, t)]
      [] backing = "MapQueue" ->
            LET T == MapTouch(Q, queue_name)
                q == T.deques[queue_name]
            IN  [queue |-> T, task |-> IF MapHeadEligible(q, t) THEN Some(q[1]) ELSE None]
      [] backing = "InMemorySqliteQueue" ->
            LET row == SqlSelectNext(Q, queue_name, t)
            IN  [queue |-> Q,
                 task |-> IF row = None THEN None ELSE Some(from_sql_schema(row[1]))]

\* list.remove raises ValueError for a task that is gone, popleft returns
\* whatever is first now and raises IndexError on an empty deque, DELETE
\* of a row that is gone deletes nothing and the row read is returned.
dequeue_take(Q, queue_name, seen) ==
    CASE backing = "SimpleInMemoryQueue" ->
            IF \E i \in 1..Len(Q.list) : Q.list[i] = seen
            THEN [queue |-> [Q EXCEPT !.list = RemoveFirst(Q.list, seen)],
                  task |-> Some(seen), raised |-> ""]
            ELSE [queue |-> Q, task |-> None, raised |-> "ValueError"]
      [] backing = "MapQueue" ->
            LET q == Q.deques[queue_name]
            IN  IF q = <<>>
                THEN [queue |-> Q, task |-> None, raised |-> "IndexError"]
                ELSE [queue |-> [Q EXCEPT !.deques[queue_name] = Tail(q)],
                      task |-> Some(q[1]), raised |-> ""]
      [] backing = "InMemorySqliteQueue" ->
            [queue |-> InMemorySqliteQueue_remove(Q, seen.id),
             task |-> Some(seen), raised |-> ""]

RECURSIVE SumLen(_, _)
SumLen(f, S) ==
    IF S = {} THEN 0
    ELSE LET n == CHOOSE n \in S : TRUE IN Len(f[n]) + SumLen(f, S \ {n})

total_tasks(Q) ==
    CASE backing = "SimpleInMemoryQueue" -> Len(Q.list)
      [] backing = "MapQueue" -> SumLen(Q.deques, QueueNames)
      [] backing = "InMemorySqliteQueue" -> Len(Q.rows)

\* Every task held by the queue object, whatever the backing.
Stored(Q) ==
    CASE backing = "SimpleInMemoryQueue" -> {Q.list[i] : i \in 1..Len(Q.list)}
      [] backing = "MapQueue" ->
            UNION {{Q.deques[n][i] : i \in 1..Len(Q.deques[n])} : n \in QueueNames}
      [] backing = "InMemorySqliteQueue" ->
            {from_sql_schema(Q.rows[i]) : i \in 1..Len(Q.rows)}

\* MapQueue iterates the dict (keys with an empty deque included),
\* SimpleInMemoryQueue counts the names its list holds in order of first
\* appearance, SQLite groups the rows by queue_name.  A sequence of
\* [queue_name, count] in the order the mapping is iterated.
RECURSIVE FirstAppearance(_)
FirstAppearance(names) ==
    IF names = <<>> THEN <<>>
    ELSE <<Head(names)>>
            \o FirstAppearance(SelectSeq(Tail(names), LAMBDA n : n # Head(names)))

CountIn(s, queue_name) == Len(SelectSeq(s, LAMBDA x : x.queue_name = queue_name))

total_tasks_by_queue(Q) ==
    CASE backing = "SimpleInMemoryQueue" ->
            LET names == FirstAppearance([i \in 1..Len(Q.list) |-> Q.list[i].queue_name])
            IN  [k \in 1..Len(names) |->
                    [queue_name |-> names[k], count |-> CountIn(Q.list, names[k])]]
      [] backing = "MapQueue" ->
            [k \in 1..Len(Q.keys) |->
                [queue_name |-> Q.keys[k], count |-> Len(Q.deques[Q.keys[k]])]]
      [] backing = "InMemorySqliteQueue" ->
            LET names == SelectSeq(<<TLO_DEFAULT_QUEUE_NAME, "priority">>,
                                   LAMBDA n : CountIn(Q.rows, n) > 0)
            IN  [k \in 1..Len(names) |->
                    [queue_name |-> names[k], count |-> CountIn(Q.rows, names[k])]]

\* queue.dequeue_any_unsafe(queue_name): the next task of the named queue
\* in dispatch order, whether eligible or not.
dequeue_any_unsafe(Q, queue_name) ==
    CASE backing = "SimpleInMemoryQueue" ->
            LET named == SelectSeq(Q.list, LAMBDA qt : qt.queue_name = queue_name)
            IN  IF named = <<>> THEN [queue |-> Q, task |-> None]
                ELSE [queue |-> [Q EXCEPT !.list = RemoveFirst(Q.list, Head(named))],
                      task |-> Some(Head(named))]
      [] backing = "MapQueue" ->
            LET T == MapTouch(Q, queue_name)
                q == T.deques[queue_name]
            IN  IF q = <<>> THEN [queue |-> T, task |-> None]
                ELSE [queue |-> [T EXCEPT !.deques[queue_name] = Tail(q)],
                      task |-> Some(q[1])]
      [] backing = "InMemorySqliteQueue" ->
            LET Hit(i) == Q.rows[i].queue_name = queue_name
                Least(i) == Hit(i) /\ \A j \in 1..Len(Q.rows) :
                                Hit(j) => ~SqlOrderedBefore(Q.rows[j], Q.rows[i])
            IN  IF \E i \in 1..Len(Q.rows) : Hit(i)
                THEN LET row == Q.rows[CHOOSE i \in 1..Len(Q.rows) :
                                    Least(i) /\ \A j \in 1..(i - 1) : ~Least(j)]
                     IN  [queue |-> InMemorySqliteQueue_remove(Q, row.id),
                          task |-> Some(from_sql_schema(row))]
                ELSE [queue |-> Q, task |-> None]

\* ------------------------------------------------------------ TaskRegistry
\* "ok" returns a value (or an awaitable that asyncio.run turns into one),
\* "boom" raises; "missing" is registered nowhere.
RegisteredNames == {"ok", "boom"}

contains_task(name) == name \in RegisteredNames

TaskDef_func(name) ==
    CASE name = "ok" -> [kind |-> "return", value |-> "done"]
      [] name = "boom" -> [kind |-> "raise", value |-> "boom"]

NotRegisteredText == "is not registered"

\* TaskRegistry._tasks, the dict from a name to its definition, as it is
\* once the module that registers "ok" and "boom" has been imported.
InitialTasks ==
    [name \in TaskNames |->
        IF contains_task(name) THEN Some(TaskDef_func(name)) ELSE None]

\* InMemoryTaskRegistry._register: the dict entry of the name is assigned,
\* bound or not; nothing is raised.
register(T, name, func) ==
    [tasks |-> [T EXCEPT ![name] = Some(func)], raised |-> ""]

\* ---------------------------------------------------------- TaskStateStore
TaskStatus == {"Pending", "Running", "Failed", "Succeeded", "Cancelled"}
Terminal == {"Succeeded", "Failed", "Cancelled"}

TaskStateRecord(name) ==
    [name |-> name, started_at |-> None, finished_at |-> None,
     status |-> "Pending", result |-> None]

\* InMemoryTaskStateStore: create and update both assign the dict entry.
state_store_create_dropped(S, id, record) == S

state_store_create(S, id, record) == [S EXCEPT ![id] = Some(record)]
state_store_update(S, id, record) == [S EXCEPT ![id] = Some(record)]
state_store_get(S, id) == S[id]

\* ------------------------------------------------------------------ locker
\* The locker is a set of held keys.  acquire does not block: it answers
\* whether the key was free and is now held.
locker_acquire(K, key) == [locks |-> K \cup {key}, acquired |-> key \notin K]
locker_release(K, key) == K \ {key}
is_locked(K, key) == key \in K

\* The key of an exclusive task.  A QueuedTask of src/ carries only the
\* flag exclusive; the tasks of one name are taken to share one key.
exclusive_key(qt) == qt.task_name

\* ---------------------------------------------------------------- executor
\* An executor operation works on W: the queue, the state store, the
\* keys the locker holds (locks),
\* statuses it wrote (writes), the callables it invoked (calls), the
\* exception that left it, if any (raised), and for each pass of the
\* cancellation loop that came to its end, whether it made progress
\* (passes).
World(Q, S, K) ==
    [queue |-> Q, store |-> S, locks |-> K, writes |-> <<>>, calls |-> <<>>, raised |-> "",
     passes |-> <<>>]

\* state_store.update(record); writes keeps the status the record had
\* (from) and the one written (to).
Update(W, id, record) ==
    [W EXCEPT !.store = state_store_update(W.store, id, record),
              !.writes = Append(W.writes,
                    [id |-> id, from |-> state_store_get(W.store, id)[1].status,
                     to |-> record.status])]

mark_running(W, id, t) ==
    LET record == state_store_get(W.store, id)[1]
    IN  Update(W, id, [record EXCEPT
            !.started_at = IF record.started_at # None THEN record.started_at ELSE Some(t),
            !.status = "Running"])

mark_succeeded(W, id, t, result) ==
    LET record == state_store_get(W.store, id)[1]
    IN  Update(W, id, [record EXCEPT !.finished_at = Some(t), !.status = "Succeeded",
                                     !.result = Some(result)])

mark_failed_keeps_status(W, id, t, exc) ==
    LET record == state_store_get(W.store, id)[1]
    IN  Update(W, id, [record EXCEPT !.finished_at = Some(t), !.result = Some(exc)])

mark_failed(W, id, t, exc) ==
    LET record == state_store_get(W.store, id)[1]
    IN  Update(W, id, [record EXCEPT !.finished_at = Some(t), !.status = "Failed",
                                     !.result = Some(exc)])

\* The try block of LocalExecutor.execute and what follows it: the
\* registry lookup, the call, and the record marked Failed or Succeeded.
execute_try(R, task, t) ==
    IF ~contains_task(task.task_name)
    THEN mark_failed(R, task.id, t, NotRegisteredText)
    ELSE LET f == TaskDef_func(task.task_name)
             C == [R EXCEPT !.calls = Append(R.calls, task.id)]
         IN  IF f.kind = "raise"
             THEN mark_failed(C, task.id, t, f.value)
             ELSE mark_succeeded(C, task.id, t, f.value)

execute_lookup_before_try(W, task, t) ==
    IF state_store_get(W.store, task.id) = None
    THEN [W EXCEPT !.raised = "AttributeError"]
    ELSE LET R == mark_running(W, task.id, t)
         IN  IF ~contains_task(task.task_name)
             THEN [R EXCEPT !.raised = "TaskIsNotRegisteredError"]
             ELSE LET f == TaskDef_func(task.task_name)
                      C == [R EXCEPT !.calls = Append(R.calls, task.id)]
                  IN  IF f.kind = "raise"
                      THEN mark_failed(C, task.id, t, f.value)
                      ELSE mark_succeeded(C, task.id, t, f.value)

execute_keeps_key_on_failure(W, task, t) ==
    IF state_store_get(W.store, task.id) = None
    THEN [W EXCEPT !.raised = "AttributeError"]
    ELSE IF is_locked(W.locks, exclusive_key(task)) THEN W
    ELSE LET A == [W EXCEPT !.locks = locker_acquire(W.locks, exclusive_key(task)).locks]
             R == execute_try(mark_running(A, task.id, t), task, t)
         IN  IF state_store_get(R.store, task.id)[1].status = "Failed" THEN R
             ELSE [R EXCEPT !.locks = locker_release(R.locks, exclusive_key(task))]

\* LocalExecutor.execute: a task without a state record makes
\* _mark_running fail on None before the try block is entered.
execute(W, task, t) ==
    IF state_store_get(W.store, task.id) = None
    THEN [W EXCEPT !.raised = "AttributeError"]
    ELSE execute_try(mark_running(W, task.id, t), task, t)

\* LocalExecutor._drain_queue: queue.dequeue() names no queue, so it reads
\* the queue called TLO_DEFAULT_QUEUE_NAME.
RECURSIVE drain_queue(_, _)
drain_queue(W, t) ==
    LET r == dequeue(W.queue, TLO_DEFAULT_QUEUE_NAME, t)
    IN  IF r.task = None THEN [W EXCEPT !.queue = r.queue]
        ELSE LET E == execute([W EXCEPT !.queue = r.queue], r.task[1], t)
             IN  IF E.raised # "" THEN E ELSE drain_queue(E, t)

RECURSIVE cancel_pass_eligible_only(_, _, _, _)
cancel_pass_eligible_only(W, queues, t, progress) ==
    IF queues = <<>> THEN [world |-> W, progress |-> progress]
    ELSE IF Head(queues).count = 0
    THEN cancel_pass_eligible_only(W, Tail(queues), t, progress)
    ELSE LET r == dequeue(W.queue, Head(queues).queue_name, t)
             D == [W EXCEPT !.queue = r.queue]
         IN  IF r.task = None THEN cancel_pass_eligible_only(D, Tail(queues), t, progress)
             ELSE IF state_store_get(D.store, r.task[1].id) = None
             THEN [world |-> [D EXCEPT !.raised = "AttributeError"], progress |-> progress]
             ELSE LET record == state_store_get(D.store, r.task[1].id)[1]
                      U == Update(D, r.task[1].id,
                                  [record EXCEPT !.finished_at = Some(t),
                                                 !.status = "Cancelled"])
                  IN  cancel_pass_eligible_only(U, Tail(queues), t, TRUE)

\* One pass of the for loop of _cancel_pending_tasks over the counted
\* queues; progress tells whether a task was cancelled.
RECURSIVE cancel_pass(_, _, _, _)
cancel_pass(W, queues, t, progress) ==
    IF queues = <<>> THEN [world |-> W, progress |-> progress]
    ELSE IF Head(queues).count = 0 THEN cancel_pass(W, Tail(queues), t, progress)
    ELSE LET r == dequeue_any_unsafe(W.queue, Head(queues).queue_name)
             D == [W EXCEPT !.queue = r.queue]
         IN  IF r.task = None THEN cancel_pass(D, Tail(queues), t, progress)
             ELSE IF state_store_get(D.store, r.task[1].id) = None
             THEN [world |-> [D EXCEPT !.raised = "AttributeError"], progress |-> progress]
             ELSE LET record == state_store_get(D.store, r.task[1].id)[1]
                      U == Update(D, r.task[1].id,
                                  [record EXCEPT !.finished_at = Some(t),
                                                 !.status = "Cancelled"])
                  IN  cancel_pass(U, Tail(queues), t, TRUE)

cancel_pending_tasks_single_pass(W, t) ==
    LET queues == total_tasks_by_queue(W.queue)
    IN  IF queues = <<>> THEN W
        ELSE LET p == cancel_pass(W, queues, t, FALSE)
             IN  IF p.world.raised # "" THEN p.world
                 ELSE [p.world EXCEPT !.passes = Append(@, p.progress)]

\* _cancel_pending_tasks: "while True": the names are counted, no name
\* ends the loop; one pass; a pass without progress ends the loop.
RECURSIVE cancel_pending_tasks(_, _)
cancel_pending_tasks(W, t) ==
    LET queues == total_tasks_by_queue(W.queue)
    IN  IF queues = <<>> THEN W
        ELSE LET p == cancel_pass(W, queues, t, FALSE)
                 after == [p.world EXCEPT !.passes = Append(@, p.progress)]
             IN  IF p.world.raised # "" THEN p.world
                 ELSE IF ~p.progress THEN after
                 ELSE cancel_pending_tasks(after, t)

handle_stop_pending_ignore_drains(W, t, cancel_requested, configured) ==
    LET behavior == IF cancel_requested THEN "Cancel" ELSE configured
    IN  CASE behavior = "Cancel" -> cancel_pending_tasks(W, t)
          [] behavior = "Ignore" -> drain_queue(W, t)
          [] behavior = "Drain" ->
                LET D == drain_queue(W, t)
                IN  IF D.raised # "" THEN D ELSE cancel_pending_tasks(D, t)

handle_stop_pending(W, t, cancel_requested, configured) ==
    LET behavior == IF cancel_requested THEN "Cancel" ELSE configured
    IN  CASE behavior = "Cancel" -> cancel_pending_tasks(W, t)
          [] behavior = "Ignore" -> W
          [] behavior = "Drain" ->
                LET D == drain_queue(W, t)
                IN  IF D.raised # "" THEN D ELSE cancel_pending_tasks(D, t)

\* ----------------------------------------------------------------- threads
\* The thread that called run() and the thread that called stop(): where
\* each stands (pc), the task it has in hand, the exception that ended it
\* (error) and a mark (stopped): for stop(), that it was called while the
\* run loop was inside execute; for run(), that such a call had been made
\* when the dequeue in progress began.
IdleThread == [pc |-> "idle", task |-> None, stopped |-> FALSE, error |-> ""]
IdleThreads == [loop |-> IdleThread, stop |-> IdleThread]

\* --------------------------------------------------------------- scheduler
\* The registrations that carry a schedule, in registration order:
\* "every_second" is registered with the integer 1 (seconds),
\* "every_tick" with a timedelta of one clock tick (half a second).
ScheduledNames == <<"every_second", "every_tick">>

Registered_interval(name) ==
    CASE name = "every_second" -> [kind |-> "int", value |-> 1]
      [] name = "every_tick" -> [kind |-> "timedelta", value |-> 1]

TaskDef_interval_not_normalised(name) == Registered_interval(name).value

\* TaskDef.__post_init__: an integer interval is a number of seconds and
\* becomes a timedelta (here: clock ticks, two to the second).
TaskDef_interval(name) ==
    IF Registered_interval(name).kind = "int"
    THEN 2 * Registered_interval(name).value
    ELSE Registered_interval(name).value

\* IntervalSchedule.next_run_after(last_run)
next_run_after(name, last) == last + TaskDef_interval(name)

NeverRun == [i \in 1..Len(ScheduledNames) |-> None]

\* The id a new QueuedTask gets: one that no record and no queued task has.
FreshId(W) ==
    CHOOSE i \in DOMAIN W.store :
        /\ W.store[i] = None /\ \A qt \in Stored(W.queue) : qt.id # i
        /\ \A j \in 1..(i - 1) : W.store[j] # None \/ \E qt \in Stored(W.queue) : qt.id = j

FreeIds(Q, S) == {i \in DOMAIN S : S[i] = None /\ \A qt \in Stored(Q) : qt.id # i}

\* scheduler.tick() over the scheduled registrations k..: a task that
\* never ran, or whose next run is not later than the clock, is enqueued
\* in the default queue under a fresh id, gets a Pending record and has
\* its last run set to the clock.
RECURSIVE tick(_, _, _, _)
tick(W, L, k, t) ==
    IF k > Len(ScheduledNames) THEN [world |-> W, last_run |-> L]
    ELSE LET name == ScheduledNames[k]
             next_eligible == next_run_after(name, IF L[k] = None THEN t ELSE L[k][1])
         IN  IF L[k] = None \/ t >= next_eligible
             THEN LET id == FreshId(W)
                      qt == QueuedTask(id, name, default_queue, None)
                      E == [W EXCEPT !.queue = enqueue(W.queue, qt),
                                     !.store = state_store_create(W.store, id,
                                                                  TaskStateRecord(name))]
                  IN  tick(E, [L EXCEPT ![k] = Some(t)], k + 1, t)
             ELSE tick(W, L, k + 1, t)

\* Schedules that fail: next_run_after of "broken" raises ValueError, that
\* of "misconfigured" raises TloConfigError; "every_tick" is the interval
\* schedule above.
FaultyRegistries ==
    {<<"broken", "every_tick">>, <<"every_tick", "broken">>,
     <<"misconfigured", "every_tick">>, <<"every_tick", "misconfigured">>}

schedule_raises(name) ==
    CASE name = "broken" -> "ValueError"
      [] name = "misconfigured" -> "TloConfigError"
      [] OTHER -> ""

schedule_error_propagates_in_panic_only(error, panic) == panic

\* tick's handling of an exception of a schedule: a ConfigError always
\* leaves tick, any other exception only in panic mode.
schedule_error_propagates(error, panic) == error = "TloConfigError" \/ panic

\* scheduler.tick() over the registrations names[k..] of a registry whose
\* schedules may raise: next_run_after is called for every task, the
\* never-run ones included.
RECURSIVE tick_schedules(_, _, _, _, _, _)
tick_schedules(names, panic, W, L, k, t) ==
    IF k > Len(names) THEN [world |-> W, last_run |-> L]
    ELSE LET name == names[k]
             error == schedule_raises(name)
         IN  IF error # ""
             THEN IF schedule_error_propagates(error, panic)
                  THEN [world |-> [W EXCEPT !.raised = error], last_run |-> L]
                  ELSE tick_schedules(names, panic, W, L, k + 1, t)
             ELSE IF L[k] = None
                        \/ t >= next_run_after(name, IF L[k] = None THEN t ELSE L[k][1])
             THEN LET id == FreshId(W)
                      qt == QueuedTask(id, name, default_queue, None)
                      E == [W EXCEPT !.queue = enqueue(W.queue, qt),
                                     !.store = state_store_create(W.store, id,
                                                                  TaskStateRecord(name))]
                  IN  tick_schedules(names, panic, E, [L EXCEPT ![k] = Some(t)], k + 1, t)
             ELSE tick_schedules(names, panic, W, L, k + 1, t)

\* ------------------------------------------------------------------- state
\* ret is what the last operation was and did: the queue it was asked
\* for, the task it was given or returned, the exception that left it,
\* stop's arguments, the ids queued and the ids eligible when it began
\* (stop and drain_queue), the state-store updates it made and the
\* callables it invoked.
NoRet ==
    [op |-> "none", queue_name |-> "", task |-> None, task_id |-> 0, raised |-> "",
     cancel |-> FALSE, behavior |-> "", queued |-> {}, ready |-> {},
     writes |-> <<>>, calls |-> <<>>, name |-> "", passes |-> <<>>]

\* A fresh queue of any backing; the executor's collaborators are idle.
InitQueue ==
    /\ backing \in QueueEnum
    /\ now = 0
    /\ queue = EmptyQueue
    /\ store = [i \in Ids |-> None]
    /\ running = FALSE
    /\ ret = NoRet
    /\ last_run = NeverRun
    /\ locks = {}
    /\ thread = IdleThreads
    /\ panic_mode = FALSE
    /\ scheduled = ScheduledNames
    /\ tasks = InitialTasks

\* The clock moves on.
Tick ==
    /\ now < MaxTime
    /\ now' = now + 1
    /\ ret' = NoRet
    /\ UNCHANGED <<backing, queue, store, running, locks>>
    /\ UNCHANGED idle

\* queue.enqueue(qt); the queue never looks at the task's name.
Enqueue ==
    \E qt \in {x \in QueuedTasks : x.task_name = "ok"} :
        /\ total_tasks(queue) < MaxQueue
        /\ queue' = enqueue(queue, qt)
        /\ ret' = NoRet
        /\ UNCHANGED <<backing, now, store, running, locks>>
        /\ UNCHANGED idle

\* queue.dequeue(queue_name)
Dequeue ==
    \E queue_name \in QueueNames :
        LET r == dequeue(queue, queue_name, now)
        IN  /\ queue' = r.queue
            /\ ret' = [NoRet EXCEPT !.op = "dequeue", !.queue_name = queue_name,
                          !.task = r.task,
                          !.raised = IF r.task = None THEN "QueueEmpty" ELSE ""]
            /\ UNCHANGED <<backing, now, store, running, locks>>
            /\ UNCHANGED idle

\* queue.remove(task_id)
Remove ==
    \E task_id \in Ids :
        /\ queue' = remove(queue, task_id)
        /\ ret' = NoRet
        /\ UNCHANGED <<backing, now, store, running, locks>>
        /\ UNCHANGED idle

NextQueue == Tick \/ Enqueue \/ Dequeue \/ Remove

SpecQueue == InitQueue /\ [][NextQueue]_vars

\* ------------------------------------------ queue operations specification
\* Every operation of the queue called directly, with what it was given
\* and what it answered kept in ret.  Tasks are ready at once or due at the
\* last instant of the clock; an id may be enqueued again while it is
\* queued.
OpTasks ==
    {QueuedTask(i, "ok", q, e) : i \in 1..MaxOpId, q \in QueueNames, e \in {None, Some(MaxTime)}}

\* Every entry the queue object holds, in the order the backing keeps them.
Entries(Q) ==
    CASE backing = "SimpleInMemoryQueue" -> Q.list
      [] backing = "MapQueue" -> Q.deques[TLO_DEFAULT_QUEUE_NAME] \o Q.deques["priority"]
      [] backing = "InMemorySqliteQueue" ->
            [i \in 1..Len(Q.rows) |-> from_sql_schema(Q.rows[i])]

QueuedIds(Q) == {Entries(Q)[i].id : i \in 1..Len(Entries(Q))}

\* queue.enqueue(qt)
OpEnqueue ==
    \E qt \in OpTasks :
        /\ total_tasks(queue) < MaxOps
        /\ queue' = enqueue(queue, qt)
        /\ ret' = [NoRet EXCEPT !.op = "enqueue", !.queue_name = qt.queue_name,
                      !.task = Some(qt), !.task_id = qt.id, !.queued = QueuedIds(queue)]
        /\ UNCHANGED <<backing, now, store, running, locks>>
        /\ UNCHANGED idle

\* queue.peek(queue_name)
OpPeek ==
    \E queue_name \in QueueNames :
        LET r == peek(queue, queue_name, now)
        IN  /\ queue' = r.queue
            /\ ret' = [NoRet EXCEPT !.op = "peek", !.queue_name = queue_name,
                          !.task = r.task]
            /\ UNCHANGED <<backing, now, store, running, locks>>
            /\ UNCHANGED idle

\* queue.remove(task_id): no backing raises, whether the id is queued or not
OpRemove ==
    \E task_id \in 1..MaxOpId :
        /\ queue' = remove(queue, task_id)
        /\ ret' = [NoRet EXCEPT !.op = "remove", !.task_id = task_id,
                      !.queued = QueuedIds(queue)]
        /\ UNCHANGED <<backing, now, store, running, locks>>
        /\ UNCHANGED idle

NextOps == Tick \/ OpEnqueue \/ Dequeue \/ OpPeek \/ OpRemove

SpecOps == InitQueue /\ [][NextOps]_vars

\* queue.move(task_id, queue_name) and queue.reschedule(task_id, eta): the
\* queued task of that id is taken out and enqueued again with the new
\* queue name or the new eta, so that it takes the place the ordering
\* rule gives it; QueueEmpty when no task has the id.
move(Q, task_id, queue_name) ==
    IF \E x \in Stored(Q) : x.id = task_id
    THEN LET qt == CHOOSE x \in Stored(Q) : x.id = task_id
         IN  [queue |-> enqueue(remove(Q, task_id), [qt EXCEPT !.queue_name = queue_name]),
              raised |-> ""]
    ELSE [queue |-> Q, raised |-> "QueueEmpty"]

reschedule(Q, task_id, eta) ==
    IF \E x \in Stored(Q) : x.id = task_id
    THEN LET qt == CHOOSE x \in Stored(Q) : x.id = task_id
         IN  [queue |-> enqueue(remove(Q, task_id), [qt EXCEPT !.eta = eta]),
              raised |-> ""]
    ELSE [queue |-> Q, raised |-> "QueueEmpty"]

\* --------------------------------------------- eta order specification
\* Tasks that are overdue, ready at once and not yet due side by side:
\* an eta of 0 has passed once the clock has moved, an eta after the last
\* instant of the clock never comes.
OrderEnqueue ==
    \E i \in 1..MaxOpId, q \in QueueNames, e \in {None, Some(0), Some(MaxTime + 1)} :
        /\ total_tasks(queue) < MaxOps
        /\ queue' = enqueue(queue, QueuedTask(i, "ok", q, e))
        /\ ret' = NoRet
        /\ UNCHANGED <<backing, now, store, running, locks>>
        /\ UNCHANGED idle

NextOrder == Tick \/ OrderEnqueue \/ Dequeue \/ OpPeek \/ Remove

SpecOrder == InitQueue /\ [][NextOrder]_vars

\* ------------------------------------------- numeric eta specification
\* QueuedTask.__post_init__: an eta given as an int, a count of seconds
\* since the epoch, becomes the datetime of that instant (two ticks to a
\* second); any other eta is kept as given.  A float eta is the pair of
\* its instant and the word "float", so that it is no datetime.
QueuedTask_post_init(eta) ==
    CASE eta.kind = "none" -> None
      [] eta.kind = "datetime" -> Some(eta.value)
      [] eta.kind = "int" -> Some(2 * eta.value)
      [] eta.kind = "float" -> <<eta.value, "float">>

\* QueuedTask(id, "ok", queue_name, eta=...) is built and enqueued.  The
\* asserts of the enqueue paths raise AssertionError: in SQLite when the
\* eta is not None and no datetime; in the in-memory backings, when the
\* sequence is not empty and the eta is not None, for an eta that is no
\* datetime and for a stored eta that is no datetime and is reached by the
\* scan before the place of insertion.
NumericEnqueue ==
    \E i \in 1..MaxOpId, q \in QueueNames,
       eta \in {[kind |-> "none", value |-> 0], [kind |-> "datetime", value |-> 1],
                [kind |-> "int", value |-> 0], [kind |-> "int", value |-> 1],
                [kind |-> "float", value |-> 1]} :
        LET qt == QueuedTask(i, "ok", q, QueuedTask_post_init(eta))
            s == IF backing = "SimpleInMemoryQueue" THEN queue.list ELSE queue.deques[q]
            stops(k) == s[k].eta # None /\ (Len(s[k].eta) = 2 \/ s[k].eta[1] > qt.eta[1])
            raises ==
                /\ qt.eta # None
                /\ IF backing = "InMemorySqliteQueue" THEN Len(qt.eta) = 2
                   ELSE /\ s # <<>>
                        /\ \/ Len(qt.eta) = 2
                           \/ \E k \in 1..Len(s) :
                                 /\ stops(k) /\ Len(s[k].eta) = 2
                                 /\ \A j \in 1..(k - 1) : ~stops(j)
        IN  /\ total_tasks(queue) < MaxOps
            /\ queue' = IF raises THEN queue ELSE enqueue(queue, qt)
            /\ ret' = [NoRet EXCEPT !.op = "enqueue", !.queue_name = q,
                          !.raised = IF raises THEN "AssertionError" ELSE ""]
            /\ UNCHANGED <<backing, now, store, running, locks>>
            /\ UNCHANGED idle

NextNumeric == Tick \/ NumericEnqueue \/ Remove

SpecNumeric == InitQueue /\ [][NextNumeric]_vars

\* ------------------------------------------------- executor and orchestrator
Eligible(qt, t) == qt.eta = None \/ qt.eta[1] <= t

\* The tasks handed to the orchestrator and the executor: ready at once,
\* or due at the last instant of the clock.
ExecutorTasks == {qt \in QueuedTasks : qt.eta \in {None, Some(MaxTime)}}

\* The executor's operations are followed at one instant of the clock,
\* whichever it is; the clock moves under SpecQueue.
Init ==
    /\ backing \in QueueEnum
    /\ now \in Times
    /\ queue = EmptyQueue
    /\ store = [i \in Ids |-> None]
    /\ running = FALSE
    /\ ret = NoRet
    /\ last_run = NeverRun
    /\ locks = {}
    /\ thread = IdleThreads
    /\ panic_mode = FALSE
    /\ scheduled = ScheduledNames
    /\ tasks = InitialTasks

Done(W, op, task, cancel, behavior) ==
    /\ queue' = W.queue
    /\ store' = W.store
    /\ locks' = W.locks
    /\ ret' = [NoRet EXCEPT !.op = op, !.task = task, !.raised = W.raised,
                  !.cancel = cancel, !.behavior = behavior,
                  !.queued = IF op \in {"stop", "drain_queue"}
                             THEN {qt.id : qt \in Stored(queue)} ELSE {},
                  !.ready = IF op \in {"stop", "drain_queue"}
                            THEN {qt.id : qt \in {x \in Stored(queue) : Eligible(x, now)}}
                            ELSE {},
                  !.writes = W.writes, !.calls = W.calls, !.passes = W.passes]

submit_task_without_record(W, id, name, queue_name, eta) ==
    LET qt == QueuedTask(id, name,
                         IF queue_name = "" THEN default_queue ELSE queue_name, eta)
    IN  [W EXCEPT !.queue = enqueue(W.queue, qt)]

\* Tlo.submit_task(name, queue_name=..., eta=...): the task is built
\* (queue_name or settings.default_queue; "" is the omitted argument),
\* its Pending record created, then the task enqueued.
submit_task(W, id, name, queue_name, eta) ==
    LET qt == QueuedTask(id, name,
                         IF queue_name = "" THEN default_queue ELSE queue_name, eta)
        S == state_store_create(W.store, qt.id, TaskStateRecord(qt.task_name))
    IN  [W EXCEPT !.store = S, !.queue = enqueue(W.queue, qt)]

\* Tlo.submit_task called with a fresh id (uuid4); ret.task keeps the
\* arguments of the call.
SubmitTask ==
    \E id \in Ids, name \in TaskNames, queue_name \in QueueNames \cup {""},
       eta \in {None, Some(MaxTime)} :
        /\ store[id] = None
        /\ \A x \in Stored(queue) : x.id # id
        /\ total_tasks(queue) < MaxQueue
        /\ Done(submit_task(World(queue, store, locks), id, name, queue_name, eta),
                "submit_task", Some(QueuedTask(id, name, queue_name, eta)), FALSE, "")
        /\ UNCHANGED <<backing, now, running>>
        /\ UNCHANGED idle

\* Tlo.peek(queue_name): the argument goes to queue.peek as it is, None
\* ("" here) when it was omitted.
Tlo_peek(Q, queue_name, t) ==
    peek(Q, IF queue_name = "" THEN NoQueueName ELSE queue_name, t)

TloPeek ==
    \E queue_name \in QueueNames \cup {""} :
        LET r == Tlo_peek(queue, queue_name, now)
        IN  /\ queue' = r.queue
            /\ ret' = [NoRet EXCEPT !.op = "peek", !.queue_name = queue_name,
                          !.task = r.task]
            /\ UNCHANGED <<backing, now, store, running, locks>>
            /\ UNCHANGED idle

\* Tlo.move_task(task_id, queue_name=...)
MoveTask ==
    \E task_id \in Ids, queue_name \in QueueNames :
        LET r == move(queue, task_id, queue_name)
        IN  /\ queue' = r.queue
            /\ ret' = [NoRet EXCEPT !.op = "move_task", !.queue_name = queue_name,
                          !.task_id = task_id, !.raised = r.raised]
            /\ UNCHANGED <<backing, now, store, running, locks>>
            /\ UNCHANGED idle

\* Tlo.reschedule_task(task_id, eta=...)
RescheduleTask ==
    \E task_id \in Ids, eta \in Etas :
        LET r == reschedule(queue, task_id, eta)
        IN  /\ queue' = r.queue
            /\ ret' = [NoRet EXCEPT !.op = "reschedule_task", !.task_id = task_id,
                          !.raised = r.raised]
            /\ UNCHANGED <<backing, now, store, running, locks>>
            /\ UNCHANGED idle

\* The orchestrator's calls that look at the queue and rearrange it.
NextTlo == SubmitTask \/ TloPeek \/ MoveTask \/ RescheduleTask

\* executor.queue.enqueue(qt), called on the queue directly with a task
\* that has no state record.
EnqueueTask ==
    \E qt \in ExecutorTasks :
        /\ store[qt.id] = None
        /\ \A x \in Stored(queue) : x.id # qt.id
        /\ total_tasks(queue) < MaxQueue
        /\ Done(World(enqueue(queue, qt), store, locks), "enqueue", None, FALSE, "")
        /\ UNCHANGED <<backing, now, running>>
        /\ UNCHANGED idle

\* executor.execute(task), called directly with the task of a record or
\* with a task that has none.
Execute ==
    \E qt \in QueuedTasks :
        /\ store[qt.id] # None => store[qt.id][1].name = qt.task_name
        /\ qt.queue_name = TLO_DEFAULT_QUEUE_NAME /\ qt.eta = None
        /\ Done(execute(World(queue, store, locks), qt, now), "execute", Some(qt), FALSE, "")
        /\ UNCHANGED <<backing, now, running>>
        /\ UNCHANGED idle

\* executor._start(), the first statement of run()
Start ==
    /\ running' = TRUE
    /\ ret' = [NoRet EXCEPT !.op = "start"]
    /\ UNCHANGED <<backing, now, queue, store, locks>>
    /\ UNCHANGED idle

\* executor._drain_queue()
DrainQueue ==
    /\ Done(drain_queue(World(queue, store, locks), now), "drain_queue", None, FALSE, "")
    /\ UNCHANGED <<backing, now, running>>
    /\ UNCHANGED idle

\* executor.stop(cancel=...) under the configured settings.stop_behavior
Stop ==
    \E cancel \in BOOLEAN, behavior \in StopBehaviorEnum :
        /\ running' = FALSE
        /\ Done(handle_stop_pending(World(queue, store, locks), now, cancel, behavior),
                "stop", None, cancel, behavior)
        /\ UNCHANGED <<backing, now>>
        /\ UNCHANGED idle

Next == SubmitTask \/ EnqueueTask \/ Execute \/ Start \/ DrainQueue \/ Stop

Spec == Init /\ [][Next]_vars

SpecTlo == Init /\ [][NextTlo]_vars

\* ------------------------------------------------- scheduler specification
InitScheduler ==
    /\ backing \in QueueEnum
    /\ now = 0
    /\ queue = EmptyQueue
    /\ store = [i \in 1..MaxTickId |-> None]
    /\ running = FALSE
    /\ ret = NoRet
    /\ last_run = NeverRun
    /\ locks = {}
    /\ thread = IdleThreads
    /\ panic_mode = FALSE
    /\ scheduled = ScheduledNames
    /\ tasks = InitialTasks

\* The clock moves on.
SchedulerClock ==
    /\ now < MaxTickTime
    /\ now' = now + 1
    /\ ret' = NoRet
    /\ UNCHANGED <<backing, queue, store, running, last_run, locks, thread, config>>

\* scheduler.set_task_last_run(name, instant)
SetTaskLastRun ==
    \E k \in DOMAIN last_run, instant \in 0..MaxTickTime :
        /\ last_run' = [last_run EXCEPT ![k] = Some(instant)]
        /\ ret' = NoRet
        /\ UNCHANGED <<backing, now, queue, store, running, locks, thread, config>>

\* scheduler.tick()
SchedulerTick ==
    /\ Cardinality(FreeIds(queue, store)) >= Len(ScheduledNames)
    /\ LET r == tick(World(queue, store, locks), last_run, 1, now)
       IN  /\ queue' = r.world.queue
           /\ store' = r.world.store
           /\ locks' = r.world.locks
           /\ last_run' = r.last_run
           /\ ret' = [NoRet EXCEPT !.op = "tick", !.raised = r.world.raised]
    /\ UNCHANGED <<backing, now, running, thread, config>>

NextScheduler == SchedulerClock \/ SetTaskLastRun \/ SchedulerTick

SpecScheduler == InitScheduler /\ [][NextScheduler]_vars

\* ------------------------------------------- faulty-schedule specification
\* The scheduler over a registry that holds a failing schedule, in normal
\* and in panic mode.
InitFaulty ==
    /\ backing \in QueueEnum
    /\ now = 0
    /\ queue = EmptyQueue
    /\ store = [i \in 1..MaxTickId |-> None]
    /\ running = FALSE
    /\ ret = NoRet
    /\ panic_mode \in BOOLEAN
    /\ scheduled \in FaultyRegistries
    /\ tasks = InitialTasks
    /\ last_run = [k \in 1..Len(scheduled) |-> None]
    /\ locks = {}
    /\ thread = IdleThreads

\* scheduler.tick()
FaultyTick ==
    /\ Cardinality(FreeIds(queue, store)) >= Len(scheduled)
    /\ LET r == tick_schedules(scheduled, panic_mode,
                               World(queue, store, locks), last_run, 1, now)
       IN  /\ queue' = r.world.queue
           /\ store' = r.world.store
           /\ last_run' = r.last_run
           /\ ret' = [NoRet EXCEPT !.op = "tick", !.raised = r.world.raised]
    /\ UNCHANGED <<backing, now, running, locks, thread, config>>

NextFaulty == SchedulerClock \/ SetTaskLastRun \/ FaultyTick

SpecFaulty == InitFaulty /\ [][NextFaulty]_vars

\* ---------------------------------------------------- locker specification
\* Tasks are submitted as exclusive tasks and executed one call after the
\* other while another holder acquires and releases keys of the locker.
LockerAcquire ==
    \E key \in TaskNames :
        /\ locks' = locker_acquire(locks, key).locks
        /\ ret' = [NoRet EXCEPT !.op = "acquire"]
        /\ UNCHANGED <<backing, now, queue, store, running>>
        /\ UNCHANGED idle

LockerRelease ==
    \E key \in locks :
        /\ locks' = locker_release(locks, key)
        /\ ret' = [NoRet EXCEPT !.op = "release"]
        /\ UNCHANGED <<backing, now, queue, store, running>>
        /\ UNCHANGED idle

NextLocker == SubmitTask \/ Execute \/ LockerAcquire \/ LockerRelease

SpecLocker == Init /\ [][NextLocker]_vars

\* ------------------------------------- registry and store specification
\* The registry and the state store called directly, as the modules that
\* register tasks and the orchestrator's callers do.

\* @registry.register(name=...) applied to a callable that returns one
\* of two values or raises.
Register ==
    \E name \in TaskNames,
       func \in {[kind |-> "return", value |-> "done"],
                 [kind |-> "return", value |-> "other"],
                 [kind |-> "raise", value |-> "boom"]} :
        LET r == register(tasks, name, func)
        IN  /\ tasks' = r.tasks
            /\ ret' = [NoRet EXCEPT !.op = "register", !.name = name,
                                    !.raised = r.raised]
            /\ UNCHANGED <<backing, now, queue, store, running, last_run, locks,
                           thread, panic_mode, scheduled>>

\* The records handed to the store: of a registered name, pending or done.
StoreRecords ==
    {[TaskStateRecord(name) EXCEPT !.status = status] :
        name \in RegisteredNames, status \in {"Pending", "Succeeded"}}

\* state_store.create(record), record.id being any id.
StoreCreate ==
    \E id \in Ids, record \in StoreRecords :
        /\ store' = state_store_create(store, id, record)
        /\ ret' = [NoRet EXCEPT !.op = "create", !.task_id = id]
        /\ UNCHANGED <<backing, now, queue, running, locks>>
        /\ UNCHANGED idle

\* state_store.update(record), record.id being any id.
StoreUpdate ==
    \E id \in Ids, record \in StoreRecords :
        /\ store' = state_store_update(store, id, record)
        /\ ret' = [NoRet EXCEPT !.op = "update", !.task_id = id]
        /\ UNCHANGED <<backing, now, queue, running, locks>>
        /\ UNCHANGED idle

\* state_store.delete(id) is "del self._store[id_]": a KeyError when the
\* id has no record.
StoreDelete ==
    \E id \in Ids :
        /\ store' = [store EXCEPT ![id] = None]
        /\ ret' = [NoRet EXCEPT !.op = "delete", !.task_id = id,
                                !.raised = IF store[id] = None THEN "KeyError"
                                           ELSE ""]
        /\ UNCHANGED <<backing, now, queue, running, locks>>
        /\ UNCHANGED idle

NextParts == Register \/ StoreCreate \/ StoreUpdate \/ StoreDelete

SpecParts == Init /\ [][NextParts]_vars

\* --------------------------------------------------- threads specification
\* One thread calls run(), another calls stop(), a producer submits
\* tasks; the clock stands still.  Statements of the two threads
\* interleave.  The registry holds no scheduled task, so scheduler.tick()
\* in the loop does nothing.
InitThreads ==
    /\ backing \in QueueEnum
    /\ now = 0
    /\ queue = EmptyQueue
    /\ store = [i \in Ids |-> None]
    /\ running = FALSE
    /\ ret = NoRet
    /\ last_run = NeverRun
    /\ locks = {}
    /\ thread = IdleThreads
    /\ panic_mode = FALSE
    /\ scheduled = ScheduledNames
    /\ tasks = InitialTasks

\* What follows QueueEmpty in _drain_queue: in run() the sleep and the
\* loop test, in stop() under Drain the cancellation.
AfterDrain(th) == IF th = "loop" THEN "while" ELSE "cancel"

\* An exception leaves the thread; run()'s finally clears _running.
Raise(th, error) ==
    /\ thread' = [thread EXCEPT ![th].pc = "raised", ![th].error = error,
                                ![th].task = None]
    /\ running' = IF th = "loop" THEN FALSE ELSE running

\* Tlo.submit_task from the producer, the queue name omitted or given
ThreadSubmit ==
    \E id \in Ids, queue_name \in {"", "priority"}, eta \in {None, Some(MaxTime)} :
        /\ store[id] = None
        /\ LET W == submit_task(World(queue, store, locks), id, "ok", queue_name, eta)
           IN  queue' = W.queue /\ store' = W.store
        /\ UNCHANGED <<backing, now, running, ret, last_run, locks, thread, config>>

\* run() is invoked in its thread; none of its statements has run yet.
RunCall ==
    /\ thread.loop.pc = "idle"
    /\ thread' = [thread EXCEPT !.loop.pc = "start"]
    /\ UNCHANGED <<backing, now, queue, store, running, ret, last_run, locks, config>>

\* run(): self._start()
RunStart ==
    /\ thread.loop.pc = "start"
    /\ running' = TRUE
    /\ thread' = [thread EXCEPT !.loop.pc = "while"]
    /\ UNCHANGED <<backing, now, queue, store, ret, last_run, locks, config>>

\* run(): while self._running: scheduler.tick(), then _drain_queue();
\* otherwise the finally block and the return
RunWhile ==
    /\ thread.loop.pc = "while"
    /\ thread' = [thread EXCEPT !.loop.pc = IF running THEN "drain" ELSE "returned"]
    /\ running' = running
    /\ UNCHANGED <<backing, now, queue, store, ret, last_run, locks, config>>

\* _drain_queue: self.queue.dequeue(), its first statement
DequeueLook(th) ==
    /\ thread[th].pc = "drain"
    /\ LET r == dequeue_look(queue, TLO_DEFAULT_QUEUE_NAME, now)
       IN  /\ queue' = r.queue
           /\ thread' = [thread EXCEPT
                  ![th].pc = IF r.task = None THEN AfterDrain(th) ELSE "look",
                  ![th].task = r.task,
                  ![th].stopped = IF th = "loop" THEN thread.stop.stopped
                                  ELSE thread[th].stopped]
    /\ UNCHANGED <<backing, now, store, running, ret, last_run, locks, config>>

\* _drain_queue: self.queue.dequeue(), its second statement
DequeueTake(th) ==
    /\ thread[th].pc = "look"
    /\ LET r == dequeue_take(queue, TLO_DEFAULT_QUEUE_NAME, thread[th].task[1])
       IN  /\ queue' = r.queue
           /\ IF r.raised # "" THEN Raise(th, r.raised)
              ELSE /\ thread' = [thread EXCEPT ![th].pc = "execute", ![th].task = r.task]
                   /\ running' = running
    /\ UNCHANGED <<backing, now, store, ret, last_run, locks, config>>

\* execute(task): _get_record and _mark_running
ExecuteStart(th) ==
    /\ thread[th].pc = "execute"
    /\ IF state_store_get(store, thread[th].task[1].id) = None
       THEN Raise(th, "AttributeError") /\ store' = store
       ELSE /\ store' = mark_running(World(queue, store, locks),
                                     thread[th].task[1].id, now).store
            /\ thread' = [thread EXCEPT ![th].pc = "invoke"]
            /\ running' = running
    /\ UNCHANGED <<backing, now, queue, ret, last_run, locks, config>>

\* execute(task): the try block, up to the return into _drain_queue
ExecuteFinish(th) ==
    /\ thread[th].pc = "invoke"
    /\ store' = execute_try(World(queue, store, locks), thread[th].task[1], now).store
    /\ thread' = [thread EXCEPT ![th].pc = "drain", ![th].task = None]
    /\ UNCHANGED <<backing, now, queue, running, ret, last_run, locks, config>>

\* stop(cancel=...), called from the other thread once run() has been
\* invoked: _running = False and the branch of _handle_stop_pending
StopCall ==
    \E cancel \in BOOLEAN, behavior \in StopBehaviorEnum :
        /\ thread.stop.pc = "idle"
        /\ thread.loop.pc # "idle"
        /\ running' = FALSE
        /\ thread' = [thread EXCEPT
              !.stop.pc =
                  CASE cancel \/ behavior = "Cancel" -> "cancel"
                    [] ~cancel /\ behavior = "Ignore" -> "returned"
                    [] ~cancel /\ behavior = "Drain" -> "drain",
              !.stop.stopped = thread.loop.pc \in {"execute", "invoke"}]
        /\ UNCHANGED <<backing, now, queue, store, ret, last_run, locks, config>>

\* stop(): _cancel_pending_tasks()
StopCancel ==
    /\ thread.stop.pc = "cancel"
    /\ LET W == cancel_pending_tasks(World(queue, store, locks), now)
       IN  /\ queue' = W.queue
           /\ store' = W.store
           /\ thread' = [thread EXCEPT
                  !.stop.pc = IF W.raised = "" THEN "returned" ELSE "raised",
                  !.stop.error = W.raised]
    /\ UNCHANGED <<backing, now, running, ret, last_run, locks, config>>

NextThreads ==
    \/ ThreadSubmit \/ RunCall \/ RunStart \/ RunWhile \/ StopCall \/ StopCancel
    \/ \E th \in {"loop", "stop"} :
          DequeueLook(th) \/ DequeueTake(th) \/ ExecuteStart(th) \/ ExecuteFinish(th)

SpecThreads == InitThreads /\ [][NextThreads]_vars

\* The thread of run() is scheduled again and again, and so is the thread
\* of stop() once stop() has been called: every statement either of them
\* has reached is executed in the end (callables return, sleep returns).
\* Nothing obliges a caller to call stop() or a producer to submit.
FairThreads ==
    /\ SpecThreads
    /\ WF_vars(RunStart \/ RunWhile \/ StopCancel)
    /\ \A th \in {"loop", "stop"} :
          WF_vars(DequeueLook(th) \/ DequeueTake(th) \/ ExecuteStart(th)
                    \/ ExecuteFinish(th))

\* ============================================================== properties
StoredIn(queue_name) == {qt \in Stored(queue) : qt.queue_name = queue_name}

Returned == ret.op = "dequeue" /\ ret.task # None

\* C1: in every backing, dequeue(queue_name) hands out a task that carries
\* an eta only when that eta is not later than the clock at the call.
C1_EtaEligibility ==
    (Returned /\ ret.task[1].eta # None) => ret.task[1].eta[1] <= now

\* C1 happens: a task with an eta has been dequeued while a task of the
\* same queue that is not due yet stays behind.
C1_Witness ==
    /\ Returned /\ ret.task[1].eta # None
    /\ \E qt \in StoredIn(ret.queue_name) : qt.eta # None /\ qt.eta[1] > now

\* C2: in every backing, dequeue raises QueueEmpty only when the named
\* queue holds no task that is eligible now, so a task with a future eta
\* never keeps a ready task of its queue from being handed out.
C2_FutureDoesNotBlockReady ==
    (ret.op = "dequeue" /\ ret.raised = "QueueEmpty")
        => \A qt \in StoredIn(ret.queue_name) : ~Eligible(qt, now)

\* C2 happens: a ready task has been dequeued from a queue that still
\* holds a task with a future eta.
C2_Witness ==
    /\ Returned /\ Eligible(ret.task[1], now)
    /\ \E qt \in StoredIn(ret.queue_name) : ~Eligible(qt, now)

Executed == ret.op = "execute" /\ store[ret.task[1].id] # None

WasPending == ret.writes = <<>> \/ ret.writes[1].from = "Pending"

C5_FailureDoesNotAbortDrain ==
    (ret.op = "drain_queue" /\ \E k \in 1..Len(ret.writes) : ret.writes[k].to = "Failed")
        => /\ ret.raised = ""
           /\ \A id \in ret.ready :
                  store[id] # None /\ store[id][1].status \in {"Succeeded", "Failed"}

C7_TerminalIsFinal ==
    \A k \in 1..Len(ret.writes) :
        ret.writes[k].from \in Terminal => ret.writes[k].to = ret.writes[k].from

StoppedWith(cancel, behavior) ==
    /\ ret.op = "stop" /\ ret.raised = ""
    /\ ret.cancel = cancel /\ (~cancel => ret.behavior = behavior)

C9_StopDrain ==
    StoppedWith(FALSE, "Drain") =>
        /\ total_tasks(queue) = 0
        /\ \A id \in ret.ready :
              store[id] # None /\ store[id][1].status \in {"Succeeded", "Failed"}
        /\ \A id \in ret.queued \ ret.ready :
              /\ store[id] # None /\ store[id][1].status = "Cancelled"
              /\ \A k \in 1..Len(ret.calls) : ret.calls[k] # id

\* C10: stop() under Ignore sets running to false and nothing else: the
\* queue and the state store are what they were and no callable runs.
C10_StopIgnore ==
    [][(ret'.op = "stop" /\ ~ret'.cancel /\ ret'.behavior = "Ignore")
          => /\ running' = FALSE
             /\ queue' = queue
             /\ store' = store
             /\ ret'.calls = <<>> /\ ret'.writes = <<>> /\ ret'.raised = ""]_vars

\* C10 happens: stop() under Ignore has returned with tasks still queued.
C10_Witness ==
    /\ StoppedWith(FALSE, "Ignore")
    /\ ret.queued # {} /\ total_tasks(queue) = Cardinality(ret.queued)

\* C11: a drain that has returned leaves no eligible task behind, under
\* whatever queue name the task is queued.
C11_DrainEveryQueue ==
    (ret.op = "drain_queue" /\ ret.raised = "")
        => \A qt \in Stored(queue) : ~Eligible(qt, now)

\* C15: execute(task) of a task that has no state record returns without
\* raising and writes nothing to the state store.
C15_OrphanIsSilent ==
    (ret.op = "execute" /\ store[ret.task[1].id] = None)
        => ret.raised = "" /\ ret.writes = <<>>

C19_TickEnqueuesDue ==
    [][ret'.op = "tick" =>
          \A k \in 1..Len(ScheduledNames) :
              LET name == ScheduledNames[k]
                  D == IF name = "every_second" THEN 2 ELSE 1
                  new == {qt \in Stored(queue)' \ Stored(queue) : qt.task_name = name}
                  made == {i \in DOMAIN store :
                              store[i] = None /\ store'[i] # None /\ store'[i][1].name = name}
              IN  (last_run[k] = None \/ now >= last_run[k][1] + D) =>
                      /\ Cardinality(new) = 1
                      /\ \A qt \in new :
                            /\ qt.queue_name = default_queue /\ qt.eta = None
                            /\ \A x \in Stored(queue) : x.id # qt.id
                            /\ made = {qt.id}
                            /\ store'[qt.id][1].status = "Pending"
                      /\ last_run'[k] = Some(now)]_vars

\* C19 happens: a tick has enqueued a second instance of the task that
\* runs every second, its interval having elapsed.
C19_Witness ==
    /\ ret.op = "tick"
    /\ Cardinality({qt \in Stored(queue) : qt.task_name = "every_second"}) = 2
    /\ last_run[1] = Some(now)

\* C20: on a tick, a scheduled task whose last run is set and whose next
\* run is later than the clock gets no queued task and no record, and its
\* last run stays what it was.
C20_TickSkipsNotDue ==
    [][ret'.op = "tick" =>
          \A k \in 1..Len(ScheduledNames) :
              LET name == ScheduledNames[k]
                  D == IF name = "every_second" THEN 2 ELSE 1
              IN  (last_run[k] # None /\ now < last_run[k][1] + D) =>
                      /\ {qt \in Stored(queue)' : qt.task_name = name}
                            = {qt \in Stored(queue) : qt.task_name = name}
                      /\ \A i \in DOMAIN store :
                            store'[i] # None /\ store'[i][1].name = name => store'[i] = store[i]
                      /\ last_run'[k] = last_run[k]]_vars

\* C20 happens: a tick has passed over the task that runs every second,
\* which last ran one clock tick ago, and enqueued the other task.
C20_Witness ==
    /\ ret.op = "tick"
    /\ last_run[1] = Some(now - 1) /\ last_run[2] = Some(now)
    /\ Cardinality({qt \in Stored(queue) : qt.task_name = "every_second"}) = 1
    /\ Cardinality({qt \in Stored(queue) : qt.task_name = "every_tick"}) = 2

\* C13: execute(task) of a Pending exclusive task whose key another
\* holder has does not invoke the callable, leaves the record Pending,
\* puts the task back in the queue with eta = now + tick_interval and
\* leaves the key with its holder.
C13_ContendedIsRequeued ==
    [][(/\ ret'.op = "execute"
        /\ store[ret'.task[1].id] # None
        /\ store[ret'.task[1].id][1].status = "Pending"
        /\ is_locked(locks, exclusive_key(ret'.task[1])))
          => /\ ret'.calls = <<>>
             /\ store'[ret'.task[1].id][1].status = "Pending"
             /\ \E qt \in Stored(queue)' :
                    qt.id = ret'.task[1].id /\ qt.eta = Some(now + tick_interval)
             /\ is_locked(locks', exclusive_key(ret'.task[1]))]_vars

Executing(th) == thread[th].pc \in {"execute", "invoke"}

\* C12: no two invocations that share an exclusive key are in status
\* Running at once, also while the run loop and stop() under Drain both
\* execute tasks.
C12_KeySerialized ==
    \A i, j \in Ids :
        (/\ i # j
         /\ store[i] # None /\ store[j] # None
         /\ store[i][1].status = "Running" /\ store[j][1].status = "Running")
        => exclusive_key([task_name |-> store[i][1].name])
              # exclusive_key([task_name |-> store[j][1].name])

\* C16: when stop() is called from the other thread while the run loop is
\* inside execute, the loop begins no further invocation after that
\* execute: it is never inside execute for a task whose dequeue began
\* after that call of stop().
C16_StopEndsDrain ==
    ~(Executing("loop") /\ thread.loop.stopped)

\* C17: while stop() and the run loop work on the queue together, no
\* thread fails with an error of the queue's data structure, the two
\* threads never hold the same queued task, a task handed out is eligible,
\* and a task being executed has not been Cancelled.
C17_QueueSerialized ==
    /\ \A th \in {"loop", "stop"} : thread[th].error \notin {"ValueError", "IndexError"}
    /\ (Executing("loop") /\ Executing("stop"))
          => thread.loop.task[1].id # thread.stop.task[1].id
    /\ \A th \in {"loop", "stop"} :
          Executing(th) =>
              /\ Eligible(thread[th].task[1], now)
              /\ store[thread[th].task[1].id] # None
                    => store[thread[th].task[1].id][1].status # "Cancelled"


\* C21: a tick over a registry whose schedule "broken" raises ValueError:
\* in normal mode the tick does not raise, nothing is enqueued and no
\* record is made for "broken", and the other scheduled task, when due,
\* gets its queued task, its Pending record and its last run as on any
\* tick; in panic mode the ValueError leaves the tick.
C21_ScheduleErrorSwallowed ==
    [][(ret'.op = "tick" /\ \E k \in 1..Len(scheduled) : scheduled[k] = "broken") =>
          LET at == CHOOSE k \in 1..Len(scheduled) : scheduled[k] = "broken"
              other == 3 - at
              new == {qt \in Stored(queue') \ Stored(queue) :
                         qt.task_name = scheduled[other]}
          IN  /\ \A qt \in Stored(queue') : qt.task_name # "broken"
              /\ \A i \in DOMAIN store : store'[i] # None => store'[i][1].name # "broken"
              /\ last_run'[at] = last_run[at]
              /\ panic_mode => ret'.raised = "ValueError"
              /\ ~panic_mode =>
                    /\ ret'.raised = ""
                    /\ (last_run[other] = None \/ now >= last_run[other][1] + 1) =>
                          /\ Cardinality(new) = 1
                          /\ \A qt \in new :
                                /\ store[qt.id] = None
                                /\ store'[qt.id] # None
                                /\ store'[qt.id][1].status = "Pending"
                          /\ last_run'[other] = Some(now)]_vars

\* C21 happens: in normal mode a tick has passed over the raising
\* schedule, registered first, and enqueued the task registered after it.
C21_Witness ==
    /\ ret.op = "tick" /\ ret.raised = "" /\ ~panic_mode
    /\ scheduled = <<"broken", "every_tick">>
    /\ last_run[1] # None
    /\ \E qt \in Stored(queue) : qt.task_name = "every_tick"
    /\ last_run[2] = Some(now)

\* C22: a tick over a registry whose schedule "misconfigured" raises
\* TloConfigError ends with that error in normal and in panic mode, and
\* nothing is enqueued and no record is made for "misconfigured".
C22_ConfigErrorPropagates ==
    [][(ret'.op = "tick" /\ \E k \in 1..Len(scheduled) : scheduled[k] = "misconfigured") =>
          LET at == CHOOSE k \in 1..Len(scheduled) : scheduled[k] = "misconfigured"
          IN  /\ ret'.raised = "TloConfigError"
              /\ \A qt \in Stored(queue') : qt.task_name # "misconfigured"
              /\ \A i \in DOMAIN store :
                    store'[i] # None => store'[i][1].name # "misconfigured"
              /\ last_run'[at] = last_run[at]]_vars

\* C22 happens: in normal mode a tick has ended with the TloConfigError of
\* a schedule whose last run was set.
C22_Witness ==
    /\ ret.op = "tick" /\ ret.raised = "TloConfigError" /\ ~panic_mode
    /\ \E k \in 1..Len(scheduled) : scheduled[k] = "misconfigured" /\ last_run[k] # None
    /\ \A qt \in Stored(queue) : qt.task_name # "misconfigured"

\* What dequeue(queue_name) hands out when it is called at instant t until
\* it raises QueueEmpty, and the tasks without eta among them.
RECURSIVE Dispatch(_, _, _)
Dispatch(Q, queue_name, t) ==
    LET r == dequeue(Q, queue_name, t)
    IN  IF r.task = None THEN <<>>
        ELSE <<r.task[1]>> \o Dispatch(r.queue, queue_name, t)

NoEtaDispatch(Q, queue_name, t) ==
    SelectSeq(Dispatch(Q, queue_name, t), LAMBDA qt : qt.eta = None)

\* C23: in every backing and for every queue name, a no-eta task enqueued
\* under an id that is not queued is dispatched after all the no-eta
\* tasks the queue already holds, the enqueue of an eta-bearing task does
\* not change the order of the no-eta tasks, and dequeue hands out the
\* first of them.
C23_NoEtaFifo ==
    [][\A q \in QueueNames :
          LET A == NoEtaDispatch(queue, q, now)
              B == NoEtaDispatch(queue', q, now')
          IN  /\ (ret'.op = "enqueue" /\ ret'.task_id \notin ret'.queued) =>
                    B = IF ret'.task[1].eta = None /\ ret'.queue_name = q
                        THEN Append(A, ret'.task[1]) ELSE A
              /\ (ret'.op = "dequeue" /\ ret'.queue_name = q /\ A # <<>>) =>
                    ret'.task = Some(Head(A)) /\ B = Tail(A)]_vars

\* C23 happens: dequeue has handed out a no-eta task of a queue that
\* still holds a later no-eta task and an eta-bearing task.
C23_Witness ==
    /\ Returned /\ ret.task[1].eta = None
    /\ \E x, y \in StoredIn(ret.queue_name) :
          x.eta = None /\ y.eta # None /\ x.id # ret.task[1].id /\ y.id # x.id


\* C24: in every backing, peek(q) answers with the task that dequeue(q)
\* would hand out at that instant, from the queue as it was and as peek
\* left it, with None where dequeue would raise QueueEmpty, and leaves
\* every queued entry in place.
C24_PeekIsDequeue ==
    [][ret'.op = "peek" =>
          /\ ret'.task = dequeue(queue, ret'.queue_name, now).task
          /\ ret'.task = dequeue(queue', ret'.queue_name, now').task
          /\ total_tasks(queue') = total_tasks(queue)
          /\ Entries(queue') = Entries(queue)]_vars

\* C24 happens: peek has answered with a due eta-bearing task of a queue
\* that holds two more tasks.
C24_Witness ==
    /\ ret.op = "peek" /\ ret.task # None /\ ret.task[1].eta # None
    /\ Cardinality({x.id : x \in StoredIn(ret.queue_name)}) = MaxOps


\* C25: in every backing, dequeue(q) and peek(q) answer only with tasks
\* whose queue_name is q; total_tasks_by_queue() gives for every name the
\* number of entries queued under it (none for a name it leaves out) and
\* total_tasks() is the sum of these numbers; an operation on one queue
\* name, on an id that no other queue name holds, leaves the number and
\* the answer of peek of every other queue name as they were, and changes
\* the number of its own queue name by the one task it adds or takes.
C25_QueueNamesPartition ==
    [][LET count(Q, n) ==
               LET M == total_tasks_by_queue(Q)
               IN  IF \E k \in 1..Len(M) : M[k].queue_name = n
                   THEN M[CHOOSE k \in 1..Len(M) : M[k].queue_name = n].count
                   ELSE 0
           under(Q, n) == SelectSeq(Entries(Q), LAMBDA x : x.queue_name = n)
           holds(Q, n, id) == \E k \in 1..Len(under(Q, n)) : under(Q, n)[k].id = id
       IN  ret'.op \in {"enqueue", "dequeue", "peek", "remove"} =>
             /\ (ret'.op \in {"dequeue", "peek"} /\ ret'.task # None)
                    => ret'.task[1].queue_name = ret'.queue_name
             /\ \A n \in QueueNames : count(queue', n) = Len(under(queue', n))
             /\ total_tasks(queue')
                    = count(queue', TLO_DEFAULT_QUEUE_NAME) + count(queue', "priority")
             /\ \A n \in QueueNames :
                    (n # ret'.queue_name /\ ~holds(queue, n, ret'.task_id)) =>
                        /\ count(queue', n) = count(queue, n)
                        /\ peek(queue', n, now').task = peek(queue, n, now).task
             /\ (ret'.op = "enqueue" /\ ret'.task_id \notin ret'.queued)
                    => count(queue', ret'.queue_name) = count(queue, ret'.queue_name) + 1
             /\ (ret'.op = "dequeue" /\ ret'.task # None)
                    => count(queue', ret'.queue_name) = count(queue, ret'.queue_name) - 1
             /\ (ret'.op = "remove" /\ ret'.task_id \in ret'.queued)
                    => total_tasks(queue') = total_tasks(queue) - 1]_vars

\* C25 happens: dequeue has handed out the task of one queue name while
\* the other queue name holds two tasks, one of them ready.
C25_Witness ==
    /\ Returned
    /\ \E n \in QueueNames :
          /\ n # ret.queue_name
          /\ Cardinality(StoredIn(n)) = 2
          /\ peek(queue, n, now).task # None
    /\ StoredIn(ret.queue_name) = {}


\* C26: remove(id) of an id that is not queued, be it never enqueued or
\* removed before, ends with QueueEmpty.
C26_RemoveMissingRaises ==
    (ret.op = "remove" /\ ret.task_id \notin ret.queued) => ret.raised = "QueueEmpty"

\* C27: enqueue of an id that is queued replaces the entry of that id: no
\* id ever has two entries, so the number of entries is the number of
\* queued ids.
C27_EnqueueReplacesById ==
    Len(Entries(queue)) = Cardinality(QueuedIds(queue))


\* C28: orchestrator.peek() without a queue name answers for the default
\* queue: it returns None only when the default queue holds no eligible
\* task.
C28_PeekDefaultQueue ==
    (ret.op = "peek" /\ ret.queue_name = "" /\ ret.task = None)
        => \A qt \in StoredIn(default_queue) : ~Eligible(qt, now)

C30_RescheduleTask ==
    [][(ret'.op = "reschedule_task" /\ ret'.raised = "") =>
          LET old == CHOOSE x \in Stored(queue) : x.id = ret'.task_id
              q == old.queue_name
          IN  \A qt \in {x \in Stored(queue') : x.id = ret'.task_id} :
                (qt.eta # None /\ qt.eta[1] > now) =>
                  /\ qt = [old EXCEPT !.eta = qt.eta]
                  /\ total_tasks(queue') = total_tasks(queue)
                  /\ peek(queue', q, now').task # Some(qt)
                  /\ dequeue(queue', q, now').task # Some(qt)
                  /\ peek(queue', q, now').task = peek(remove(queue, old.id), q, now).task
                  /\ \A t \in Times :
                        LET D == Dispatch(queue', q, t)
                        IN  /\ {D[k] : k \in 1..Len(D)}
                                  = {x \in Stored(queue') : x.queue_name = q /\ Eligible(x, t)}
                            /\ \A j, k \in 1..Len(D) :
                                  (j < k /\ D[k].eta = None) => D[j].eta = None]_vars

\* C30 happens: the ready task that peek answered with has been put off to
\* a later instant, and peek now answers with the other ready task of the
\* queue.
C30_Witness ==
    /\ ret.op = "reschedule_task" /\ ret.raised = ""
    /\ \E x, y \in StoredIn(default_queue) :
          /\ x.id = ret.task_id /\ x.eta # None /\ x.eta[1] > now
          /\ y.id # x.id /\ y.eta = None
          /\ peek(queue, default_queue, now).task = Some(y)

\* C31: registering under a name that is already bound raises
\* InvalidRegistration and the name keeps its first definition.
C31_DuplicateRegistrationFails ==
    [][(ret'.op = "register" /\ tasks[ret'.name] # None) =>
          /\ ret'.raised = "InvalidRegistration"
          /\ tasks' = tasks]_vars

\* C32: create for an id that already has a record raises ConfigError and
\* the stored record stays as it was.
C32_CreateExistingFails ==
    [][(ret'.op = "create" /\ store[ret'.task_id] # None) =>
          /\ ret'.raised = "ConfigError"
          /\ store' = store]_vars

\* C33: update for an id that has no record raises DoesNotExist and
\* inserts nothing.
C33_UpdateMissingFails ==
    [][(ret'.op = "update" /\ store[ret'.task_id] = None) =>
          /\ ret'.raised = "DoesNotExist"
          /\ store' = store]_vars

\* C34: with a not-yet-due task, a task without eta and an overdue task
\* queued under the default name, peek and the first dequeue answer the
\* overdue task.
C34_OverdueBeforeNoEta ==
    LET e == Entries(queue)
    IN  \A f, n, d \in 1..Len(e) :
            ( /\ Len(e) = 3
              /\ Cardinality({e[k].id : k \in 1..3}) = 3
              /\ \A k \in 1..3 : e[k].queue_name = default_queue
              /\ e[n].eta = None
              /\ e[f].eta # None /\ e[f].eta[1] > now
              /\ e[d].eta # None /\ e[d].eta[1] < now )
            => /\ peek(queue, default_queue, now).task = Some(e[d])
               /\ dequeue(queue, default_queue, now).task = Some(e[d])

\* C35: a task built with a numeric eta, int or float, is enqueued by
\* every backing and every stored eta is None or a datetime.
C35_NumericEtaNormalised ==
    /\ ret.op = "enqueue" => ret.raised = ""
    /\ \A k \in 1..Len(Entries(queue)) :
          Entries(queue)[k].eta = None \/ Len(Entries(queue)[k].eta) = 1

\* C36: while the run loop is running and stop() has not been called, a
\* submitted task that is eligible, whatever its queue name, eventually
\* has a terminal status.
C36_SubmittedReachesTerminal ==
    \A i \in Ids :
        ( /\ thread.loop.pc \in {"while", "drain", "look", "execute", "invoke"}
          /\ thread.stop.pc = "idle"
          /\ store[i] # None /\ store[i][1].status = "Pending"
          /\ \E qt \in Stored(queue) : qt.id = i /\ Eligible(qt, now) )
        ~> ( \/ store[i] # None /\ store[i][1].status \in Terminal
             \/ thread.stop.pc # "idle"
             \/ thread.loop.pc \in {"returned", "raised"} )

\* C37: whatever the interleaving of submit_task, the run loop and stop(),
\* every task in the queue has a state record and the record is Pending.
C37_QueuedIsPending ==
    \A qt \in Stored(queue) :
        store[qt.id] # None /\ store[qt.id][1].status = "Pending"

\* A task is queued while the run loop is at work on another one and
\* stop() has been called; a third moment: a record has left Pending.
C37_Witness ==
    /\ Stored(queue) # {}
    /\ thread.loop.pc \in {"execute", "invoke"}
    /\ thread.stop.pc # "idle"
    /\ \E i \in Ids : store[i] # None /\ store[i][1].status # "Pending"

C38_StopEndsRun ==
    (thread.stop.pc # "idle")
        ~> (thread.loop.pc \in {"returned", "raised"} /\ ~running)

\* C39: in the list of SimpleInMemoryQueue and in each deque of MapQueue,
\* after every enqueue, dequeue and remove, the tasks without eta come
\* first and the etas never decrease; a step takes one task out and leaves
\* the others in their order, or puts one task in, behind every task of
\* the same eta (or, without eta, behind every task without eta).
C39_StoredOrder ==
    [][(backing \in {"SimpleInMemoryQueue", "MapQueue"} =>
        \A n \in QueueNames :
            LET s == IF backing = "SimpleInMemoryQueue" THEN queue.list
                     ELSE queue.deques[n]
                s2 == IF backing = "SimpleInMemoryQueue" THEN queue'.list
                      ELSE queue'.deques[n]
            IN  /\ \A i, j \in 1..Len(s2) :
                      (i < j /\ s2[i].eta # None) =>
                          s2[j].eta # None /\ s2[i].eta[1] <= s2[j].eta[1]
                /\ \/ s2 = s
                   \/ \E k \in 1..Len(s) : s2 = DeleteAt(s, k)
                   \/ \E k \in 1..Len(s2) :
                         /\ s = DeleteAt(s2, k)
                         /\ \A j \in (k + 1)..Len(s2) : s2[j].eta # s2[k].eta
      )]_vars

\* C39 happens: a dequeue has taken the task without eta from a list of
\* three and left the overdue task before the one that is not yet due.
C39_Witness ==
    /\ backing = "SimpleInMemoryQueue"
    /\ ret.op = "dequeue" /\ ret.task # None /\ ret.task[1].eta = None
    /\ Len(queue.list) = 2
    /\ queue.list[1].eta = Some(0) /\ queue.list[2].eta = Some(MaxTime + 1)
    /\ queue.list[1].id # queue.list[2].id

====
